---- MODULE Spec2Model ----
(***************************************************************************)
(* The deep_search tool of gemini-deepsearch-mcp: the HTTP entry point     *)
(* (app.py, an async tool that runs the agent graph on a worker thread)    *)
(* and the stdio entry point (main.py, a synchronous tool and the process  *)
(* that serves it).  The agent graph, the MCP framework and the provider   *)
(* client are collaborators: the graph's outcome is an input of the model. *)
(*                                                                         *)
(* A Python string is a sequence of pieces of text, so that an f-string is *)
(* a concatenation and "contains" is a search.  A Python dict is a         *)
(* function whose DOMAIN is its set of keys.                               *)
(***************************************************************************)
EXTENDS Integers, Sequences, FiniteSets, TLC

\* ------------------------------------------------------------------ bounds

\* Tool calls made in one behaviour.
MaxCalls == 2
\* Longest message sequence the agent returns.
MaxMessages == 2
\* Longest source list the agent returns.
MaxSources == 2

\* Requests the test client sends to the stdio process.
MaxRequests == 3

Calls == 1..MaxCalls
Variants == {"http", "stdio"}

\* ------------------------------------------------------------------ values

\* The value of a variable not yet assigned: a record, a string, a sequence.
None == [none |-> TRUE]
Unset == "(unset)"
NoQuery == <<>>
\* The effort argument left out of the call.
Omitted == "(omitted)"

Efforts == {"low", "medium", "high"}
EffortArgs == Efforts \cup {Omitted}
Queries == {<<"What is AI?">>, <<"test", " query">>}

\* Sequences over S of length at most n.
RECURSIVE SeqsUpTo(_, _)
SeqsUpTo(S, n) ==
    IF n = 0 THEN {<<>>}
    ELSE LET shorter == SeqsUpTo(S, n - 1)
         IN  shorter \cup {Append(s, x) : s \in {t \in shorter : Len(t) = n - 1}, x \in S}

\* s occurs in t as a contiguous run (Python's `s in t` for strings).
Contains(t, s) ==
    \E i \in 1..(Len(t) - Len(s) + 1) : SubSeq(t, i, i + Len(s) - 1) = s

\* ------------------------------------------------- collaborators' values

\* What the agent graph can put in a message and in a source record.
Contents == {<<"AI is ...">>, <<"No answer generated.">>}
SourceRecords == {"s1", "s2"}
AIMessage(content) == [type |-> "ai", content |-> content]
MessageSeqs == SeqsUpTo({AIMessage(c) : c \in Contents}, MaxMessages)
SourceSeqs == SeqsUpTo(SourceRecords, MaxSources)

\* The state graph.invoke returns: a dict that is expected to hold "messages"
\* and "sources_gathered", and may lack either.
WellFormedResults ==
    {[messages |-> m, sources_gathered |-> s] : m \in MessageSeqs, s \in SourceSeqs}
MalformedResults ==
    {[messages |-> <<AIMessage(<<"AI is ...">>)>>],
     [sources_gathered |-> <<"s1">>],
     [search_query |-> <<>>]}
AgentResults == WellFormedResults \cup MalformedResults

\* Exceptions.  google: an instance of google_exceptions.GoogleAPIError;
\* has_message: the instance has a `message` attribute (GoogleAPICallError and
\* its subclasses do, the base class does not); text: str(e).
ErrorTexts == {<<"quota exceeded">>, <<"429 ", "rate limit">>}
GoogleErrors ==
    {[cls |-> "GoogleAPICallError", google |-> TRUE, has_message |-> TRUE, text |-> t]
        : t \in ErrorTexts}
    \cup {[cls |-> "GoogleAPIError", google |-> TRUE, has_message |-> FALSE,
           text |-> <<"quota exceeded">>]}
OtherErrors ==
    {[cls |-> "ValueError", google |-> FALSE, has_message |-> FALSE, text |-> <<"bad state">>],
     [cls |-> "RuntimeError", google |-> FALSE, has_message |-> FALSE, text |-> <<"quota exceeded">>]}
AgentErrors == GoogleErrors \cup OtherErrors
KeyError(key) ==
    [cls |-> "KeyError", google |-> FALSE, has_message |-> FALSE, text |-> <<key>>]
AttributeError(attr) ==
    [cls |-> "AttributeError", google |-> FALSE, has_message |-> FALSE, text |-> <<attr>>]

\* How a Python call ends.
Return(v) == [kind |-> "return", value |-> v]
Raise(e) == [kind |-> "raise", exc |-> e]
\* The outcome of graph.invoke in a call that ended before calling it.
NotInvoked == [kind |-> "not_invoked"]

\* An effort that is none of the three literals: the type annotation is not
\* enforced on a direct call of the function.
UnknownEfforts == {"extreme"}

\* How Configuration() can end: with the process's configuration, or with
\* the error of a construction that failed.
ValidationError ==
    [cls |-> "ValidationError", google |-> FALSE, has_message |-> FALSE,
     text |-> <<"invalid configuration">>]

\* ------------------------------------------------------ process-wide values

\* get_effort_settings' lookup table (agent/utils.py).  The table's entries
\* are EffortSettings: initial_search_query_count >= 1, max_research_loops >= 0
\* and a model identifier.
EffortTables ==
    {[low    |-> [initial_search_query_count |-> 1, max_research_loops |-> 1,
                  reasoning_model |-> "flash"],
      medium |-> [initial_search_query_count |-> 3, max_research_loops |-> 2,
                  reasoning_model |-> "flash"],
      high   |-> [initial_search_query_count |-> 5, max_research_loops |-> 3,
                  reasoning_model |-> "pro"]]}

\* The fields of Configuration() (agent/configuration.py): three model
\* identifiers.
Configurations ==
    {[query_generator_model |-> "generator-model",
      reflection_model |-> "reflection-model",
      answer_model |-> "answer-model"]}

\* -------------------------------------------------------------- variables

VARIABLES
    effort_table,    \* the process's effort presets, fixed at start
    configuration,   \* the process's Configuration fields, fixed at start
    pc,              \* pc[c]: "idle", "invoking", "returned", "done"
    variant,         \* variant[c]: the entry point call c was made on
    query,           \* query[c]: the query argument
    effort,          \* effort[c]: the effort argument, or Omitted
    agent_args,      \* agent_args[c]: what graph.invoke was called with
    invocations,     \* invocations[c]: graph.invoke calls made by call c
    outcome,         \* outcome[c]: how graph.invoke ended
    response,        \* response[c]: how deep_search ended
    loop,            \* loop[v]: the call that holds v's main thread, or 0
    log,             \* the records written through logging.error
    overlap,         \* overlap[c]: another call was invoking when c's invocation began
    server,          \* the stdio process: "not_started", "starting", "running", "stopped"
    stderr,          \* what the stdio process wrote to its error stream
    requests,        \* the JSON-RPC requests the client wrote to the process's stdin
    handled,         \* how many of them the server has read
    stdout,          \* the JSON-RPC responses the process wrote
    serving,         \* the tool request being served: [id, call], or None
    dispatched       \* the calls the server made of the registered tool function

toolVars == <<effort_table, configuration, pc, variant, query, effort, agent_args,
              invocations, outcome, response, loop, log, overlap>>
procVars == <<server, stderr, requests, handled, stdout, serving, dispatched>>
vars == <<toolVars, procVars>>

\* ------------------------------------------------------- the tool's code

\* Mutant: the parameter defaults to another preset.
DefaultEffortMedium == "medium"

\* `effort: ... = "low"`: the parameter's default.
DefaultEffort == "low"

\* The value bound to the effort parameter.
BindEffort(arg) == IF arg = Omitted THEN DefaultEffort ELSE arg

get_effort_settings(e) == effort_table[e]

\* How the call get_effort_settings(effort) ends: a lookup of an effort the
\* table does not hold raises.
ResolvePreset(e) ==
    IF e \in DOMAIN effort_table THEN Return(get_effort_settings(e)) ELSE Raise(KeyError(e))

\* How agent_config = Configuration() ends.
ConfigurationOutcomes == {Return(configuration), Raise(ValidationError)}

\* The statements before graph.invoke is called, which no try statement
\* encloses on either entry point: get_effort_settings(effort) first, then
\* Configuration().  The first exception ends them.
BeforeInvoke(e, agent_config) ==
    IF ResolvePreset(BindEffort(e)).kind = "raise" THEN ResolvePreset(BindEffort(e))
    ELSE IF agent_config.kind = "raise" THEN agent_config
    ELSE Return(TRUE)

HumanMessage(content) == [type |-> "human", content |-> content]

\* Mutant: the input state is seeded with a source and a second message.
prepare_agent_input_state_seeded(q, effort_settings) ==
    [messages |-> <<HumanMessage(q), HumanMessage(q)>>,
     search_query |-> <<>>,
     web_research_result |-> <<>>,
     sources_gathered |-> <<"s1">>,
     initial_search_query_count |-> effort_settings.initial_search_query_count,
     max_research_loops |-> effort_settings.max_research_loops,
     reasoning_model |-> effort_settings.reasoning_model]

\* app.py's _prepare_agent_input_state.
prepare_agent_input_state(q, effort_settings) ==
    [messages |-> <<HumanMessage(q)>>,
     search_query |-> <<>>,
     web_research_result |-> <<>>,
     sources_gathered |-> <<>>,
     initial_search_query_count |-> effort_settings.initial_search_query_count,
     max_research_loops |-> effort_settings.max_research_loops,
     reasoning_model |-> effort_settings.reasoning_model]

\* main.py's input_state literal.
MainInputState(q, effort_settings) ==
    [messages |-> <<HumanMessage(q)>>,
     search_query |-> <<>>,
     web_research_result |-> <<>>,
     sources_gathered |-> <<>>,
     initial_search_query_count |-> effort_settings.initial_search_query_count,
     max_research_loops |-> effort_settings.max_research_loops,
     reasoning_model |-> effort_settings.reasoning_model]

\* app.py's config dict, from agent_config = Configuration().
AppConfig(agent_config) ==
    [configurable |->
        [query_generator_model |-> agent_config.query_generator_model,
         reflection_model |-> agent_config.reflection_model,
         answer_model |-> agent_config.answer_model]]

\* Mutant: main.py uses the answer model for every step.
MainConfigOneModel(agent_config) ==
    [configurable |->
        [query_generator_model |-> agent_config.answer_model,
         reflection_model |-> agent_config.answer_model,
         answer_model |-> agent_config.answer_model]]

\* main.py's config dict.
MainConfig(agent_config) ==
    [configurable |->
        [query_generator_model |-> agent_config.query_generator_model,
         reflection_model |-> agent_config.reflection_model,
         answer_model |-> agent_config.answer_model]]

NoAnswer == <<"No answer generated.">>

\* Mutant: the first message is read instead of the last, and the sources
\* are not passed on.
ExtractAnswerFirstMessage(result) ==
    IF "messages" \notin DOMAIN result THEN Raise(KeyError("messages"))
    ELSE IF "sources_gathered" \notin DOMAIN result
    THEN Raise(KeyError("sources_gathered"))
    ELSE Return([answer |-> IF result.messages # <<>>
                            THEN result.messages[1].content
                            ELSE NoAnswer,
                 sources |-> <<>>])

\* The extraction of the answer and the sources from graph.invoke's result:
\* result["messages"] is read first, then result["sources_gathered"].
ExtractAnswer(result) ==
    IF "messages" \notin DOMAIN result THEN Raise(KeyError("messages"))
    ELSE LET answer == IF result.messages # <<>>
                       THEN result.messages[Len(result.messages)].content
                       ELSE NoAnswer
         IN  IF "sources_gathered" \notin DOMAIN result
             THEN Raise(KeyError("sources_gathered"))
             ELSE Return([answer |-> answer, sources |-> result.sources_gathered])

\* The statements after graph.invoke, given how graph.invoke ended.
AfterInvoke(o) == IF o.kind = "raise" THEN o ELSE ExtractAnswer(o.value)

\* Mutant: the provider's message is left out of the answer.
GoogleErrorAnswerWithoutMessage(message) ==
    <<"A Google API error occurred. Please check logs for details.">>

GoogleErrorAnswer(message) ==
    <<"A Google API error occurred: ">> \o message
        \o <<". Please check logs for details.">>
UnexpectedErrorAnswer ==
    <<"An unexpected error occurred during the search process. Please check logs for details.">>

\* app.py's `except google_exceptions.GoogleAPIError as e`: e.message is read,
\* which raises AttributeError out of the handler when e has no such attribute.
GoogleErrorHandler(e) ==
    IF e.has_message
    THEN Return([answer |-> GoogleErrorAnswer(e.text), sources |-> <<>>])
    ELSE Raise(AttributeError("message"))

\* Mutant: the handler puts the exception's text into the answer.
UnexpectedErrorHandlerEchoing(e) ==
    Return([answer |-> <<"An unexpected error occurred: ">> \o e.text, sources |-> <<>>])

\* app.py's `except Exception`.
UnexpectedErrorHandler(e) ==
    Return([answer |-> UnexpectedErrorAnswer, sources |-> <<>>])

\* app.py's try statement around a body that ended as r.
HttpTry(r) ==
    IF r.kind = "return" THEN r
    ELSE IF r.exc.google THEN GoogleErrorHandler(r.exc)
    ELSE UnexpectedErrorHandler(r.exc)

\* main.py has no try statement: the body's end is the function's.
StdioTry(r) == r

\* The records logging.error writes while the try statement handles r.
HttpLogged(c, r) ==
    IF r.kind = "return" THEN {}
    ELSE IF r.exc.google
    THEN {[call |-> c, text |-> <<"Google API error during deep search: ">> \o r.exc.text]}
    ELSE {[call |-> c, text |-> <<"Unexpected error during deep search: ">> \o r.exc.text]}

\* Mutant: app.py calls graph.invoke on the event loop.
HttpDispatchDirect == "direct"

\* How each entry point runs graph.invoke: app.py awaits asyncio.to_thread,
\* which frees the event loop; main.py calls it on its own thread.
HttpDispatch == "to_thread"
StdioDispatch == "direct"
Dispatch(v) == IF v = "http" THEN HttpDispatch ELSE StdioDispatch

\* The main thread of v's process can run a tool call's code.
CanRun(v) == loop[v] = 0

Invoking(v) == {d \in Calls : pc[d] = "invoking" /\ variant[d] = v}

\* ---------------------------------------------------------------- actions

Init ==
    /\ effort_table \in EffortTables
    /\ configuration \in Configurations
    /\ pc = [c \in Calls |-> "idle"]
    /\ variant = [c \in Calls |-> Unset]
    /\ query = [c \in Calls |-> NoQuery]
    /\ effort = [c \in Calls |-> Unset]
    /\ agent_args = [c \in Calls |-> None]
    /\ invocations = [c \in Calls |-> 0]
    /\ outcome = [c \in Calls |-> None]
    /\ response = [c \in Calls |-> None]
    /\ loop = [v \in Variants |-> 0]
    /\ log = {}
    /\ overlap = [c \in Calls |-> FALSE]
    /\ server = "not_started"
    /\ stderr = <<>>
    /\ requests = <<>>
    /\ handled = 0
    /\ stdout = <<>>
    /\ serving = None
    /\ dispatched = <<>>

\* Mutant: the input state and the config are one module-level object, which
\* every call in progress shares and the latest call overwrites.
BeginShared(c, v, q, e, input_state, config) ==
    /\ pc[c] = "idle"
    /\ CanRun(v)
    /\ pc' = [pc EXCEPT ![c] = "invoking"]
    /\ variant' = [variant EXCEPT ![c] = v]
    /\ query' = [query EXCEPT ![c] = q]
    /\ effort' = [effort EXCEPT ![c] = e]
    /\ agent_args' = [d \in Calls |->
                        IF d = c \/ pc[d] = "invoking"
                        THEN [input_state |-> input_state, config |-> config]
                        ELSE agent_args[d]]
    /\ invocations' = [invocations EXCEPT ![c] = @ + 1]
    /\ overlap' = [overlap EXCEPT ![c] = Invoking(v) # {}]
    /\ loop' = IF Dispatch(v) = "direct" THEN [loop EXCEPT ![v] = c] ELSE loop
    /\ UNCHANGED <<effort_table, configuration, outcome, response, log>>

\* The start of a call c on entry point v: the arguments are bound, the input
\* state and the config are built, and graph.invoke is called with them.
Begin(c, v, q, e, input_state, config) ==
    /\ pc[c] = "idle"
    /\ CanRun(v)
    /\ pc' = [pc EXCEPT ![c] = "invoking"]
    /\ variant' = [variant EXCEPT ![c] = v]
    /\ query' = [query EXCEPT ![c] = q]
    /\ effort' = [effort EXCEPT ![c] = e]
    /\ agent_args' = [agent_args EXCEPT ![c] = [input_state |-> input_state, config |-> config]]
    /\ invocations' = [invocations EXCEPT ![c] = @ + 1]
    /\ overlap' = [overlap EXCEPT ![c] = Invoking(v) # {}]
    /\ loop' = IF Dispatch(v) = "direct" THEN [loop EXCEPT ![v] = c] ELSE loop
    /\ UNCHANGED <<effort_table, configuration, outcome, response, log>>

\* app.deep_search from its call to the await of asyncio.to_thread.
HttpBegin(c, q, e) ==
    LET effort_settings == get_effort_settings(BindEffort(e))
    IN  Begin(c, "http", q, e,
              prepare_agent_input_state(q, effort_settings),
              AppConfig(configuration))

\* Mutant: the effort argument is dropped, and the default used.
StdioBeginWithoutEffort(c, q, e) ==
    Begin(c, "stdio", q, Omitted,
          MainInputState(q, get_effort_settings(DefaultEffort)),
          MainConfig(configuration))

\* main.deep_search from its call to the call of graph.invoke.
StdioBegin(c, q, e) ==
    LET effort_settings == get_effort_settings(BindEffort(e))
    IN  Begin(c, "stdio", q, e,
              MainInputState(q, effort_settings),
              MainConfig(configuration))

\* A call of app.deep_search.
HttpCall(c) ==
    /\ \E q \in Queries, e \in EffortArgs : HttpBegin(c, q, e)
    /\ UNCHANGED procVars

\* A call of main.deep_search made directly, as the tests make it.
StdioCall(c) ==
    /\ \E q \in Queries, e \in EffortArgs : StdioBegin(c, q, e)
    /\ UNCHANGED procVars

\* The same calls with the effort argument left out.
HttpCallDefaultEffort(c) ==
    /\ \E q \in Queries : HttpBegin(c, q, Omitted)
    /\ UNCHANGED procVars

StdioCallDefaultEffort(c) ==
    /\ \E q \in Queries : StdioBegin(c, q, Omitted)
    /\ UNCHANGED procVars

\* A call c on entry point v that a statement before graph.invoke ends: the
\* exception leaves deep_search, and graph.invoke is not called.
Abort(c, v, q, e, agent_config) ==
    /\ pc[c] = "idle"
    /\ CanRun(v)
    /\ BeforeInvoke(e, agent_config).kind = "raise"
    /\ pc' = [pc EXCEPT ![c] = "done"]
    /\ variant' = [variant EXCEPT ![c] = v]
    /\ query' = [query EXCEPT ![c] = q]
    /\ effort' = [effort EXCEPT ![c] = e]
    /\ outcome' = [outcome EXCEPT ![c] = NotInvoked]
    /\ response' = [response EXCEPT ![c] = BeforeInvoke(e, agent_config)]
    /\ UNCHANGED <<effort_table, configuration, agent_args, invocations, loop, log, overlap>>

\* A call of app.deep_search that fails before its try statement.
HttpAborts(c) ==
    /\ \E q \in Queries, e \in EffortArgs \cup UnknownEfforts,
          agent_config \in ConfigurationOutcomes :
            Abort(c, "http", q, e, agent_config)
    /\ UNCHANGED procVars

\* A call of main.deep_search that fails before it calls graph.invoke.
StdioAborts(c) ==
    /\ \E q \in Queries, e \in EffortArgs \cup UnknownEfforts,
          agent_config \in ConfigurationOutcomes :
            Abort(c, "stdio", q, e, agent_config)
    /\ UNCHANGED procVars

\* How graph.invoke can end.
AgentOutcomes ==
    {Return(result) : result \in AgentResults} \cup {Raise(e) : e \in AgentErrors}

\* Two of these ends, a return and a failure, for the behaviours of several
\* calls.
SomeOutcomes ==
    {Return([messages |-> <<AIMessage(<<"No answer generated.">>), AIMessage(<<"AI is ...">>)>>,
             sources_gathered |-> <<"s2", "s1">>]),
     Raise([cls |-> "ValueError", google |-> FALSE, has_message |-> FALSE,
            text |-> <<"bad state">>])}

\* Mutant: graph.invoke is in a loop that calls it again after a failure.
RetryLoopAroundInvoke == TRUE

\* Neither entry point has a loop around graph.invoke.
RetryLoop == FALSE

\* The invocation of call c that ended as o is made again.
Retried(c, o) == RetryLoop /\ o.kind = "raise" /\ invocations[c] < 2

\* graph.invoke ends on app.py's worker thread: the awaited future is set.
WorkerEnds(c, outcomes) ==
    /\ pc[c] = "invoking"
    /\ variant[c] = "http"
    /\ \E o \in outcomes :
         IF Retried(c, o)
         THEN /\ invocations' = [invocations EXCEPT ![c] = @ + 1]
              /\ UNCHANGED <<pc, outcome>>
         ELSE /\ outcome' = [outcome EXCEPT ![c] = o]
              /\ pc' = [pc EXCEPT ![c] = "returned"]
              /\ UNCHANGED invocations
    /\ UNCHANGED <<effort_table, configuration, variant, query, effort, agent_args,
                   response, loop, log, overlap>>
    /\ UNCHANGED procVars

\* Mutant: the await is bounded (asyncio.wait_for): while the worker thread
\* runs it can end with a TimeoutError.
AwaitWithTimeout(c) ==
    IF pc[c] = "returned" THEN outcome[c]
    ELSE IF pc[c] = "invoking"
    THEN Raise([cls |-> "TimeoutError", google |-> FALSE, has_message |-> FALSE,
                text |-> <<"timed out">>])
    ELSE None

\* `await asyncio.to_thread(graph.invoke, ...)`: what the await has yielded
\* to the coroutine of call c.  It yields how graph.invoke ended, once the
\* worker thread's call has ended, and nothing (None) before.
Await(c) == IF pc[c] = "returned" THEN outcome[c] ELSE None

\* app.deep_search from the end of the await to its end: the coroutine is
\* resumed on the event loop.
HttpResume(c) ==
    /\ Await(c) # None
    /\ variant[c] = "http"
    /\ loop["http"] \in {0, c}
    /\ response' = [response EXCEPT ![c] = HttpTry(AfterInvoke(Await(c)))]
    /\ log' = log \cup HttpLogged(c, AfterInvoke(Await(c)))
    /\ loop' = [loop EXCEPT !["http"] = 0]
    /\ pc' = [pc EXCEPT ![c] = "done"]
    /\ UNCHANGED <<effort_table, configuration, variant, query, effort, agent_args,
                   invocations, outcome, overlap>>
    /\ UNCHANGED procVars

\* main.deep_search from graph.invoke's end to its own, on the thread that
\* made the call.
StdioFinish(c, outcomes) ==
    /\ pc[c] = "invoking"
    /\ variant[c] = "stdio"
    /\ loop["stdio"] \in {0, c}
    /\ \E o \in outcomes :
         IF Retried(c, o)
         THEN /\ invocations' = [invocations EXCEPT ![c] = @ + 1]
              /\ UNCHANGED <<pc, outcome, response, loop>>
         ELSE /\ outcome' = [outcome EXCEPT ![c] = o]
              /\ response' = [response EXCEPT ![c] = StdioTry(AfterInvoke(o))]
              /\ loop' = [loop EXCEPT !["stdio"] = 0]
              /\ pc' = [pc EXCEPT ![c] = "done"]
              /\ UNCHANGED invocations
    /\ UNCHANGED <<effort_table, configuration, variant, query, effort, agent_args,
                   log, overlap>>
    /\ UNCHANGED procVars

\* ------------------------------------------------ the stdio process

\* main() writes its notice to sys.stderr.
StartupNotice == "Starting MCP stdio server...\n"
\* Mutant: main() starts the server without writing the notice.
WriteNothing(err) == err

WriteNotice(err) == Append(err, StartupNotice)

\* mcp = FastMCP("DeepSearch"): the name the server reports.
ServerName == "DeepSearch"

\* The keyword arguments a tool request can carry: effort may be left out.
ToolInputs ==
    {[query |-> q, effort |-> e] : q \in Queries, e \in Efforts}
    \cup {[query |-> q] : q \in Queries}

\* The test client's requests (StdioMCPClient.send_request): ids count from 1.
InitializeRequest(id) ==
    [jsonrpc |-> "2.0", id |-> id, method |-> "initialize",
     params |-> [protocolVersion |-> "2024-05-07", clientInfo |-> "pytest-client"]]
ToolRequest(id, inputs) ==
    [jsonrpc |-> "2.0", id |-> id, method |-> "tools/execute",
     params |-> [toolName |-> "DeepSearch", inputs |-> inputs]]

\* The value the effort parameter gets from a request's inputs.
EffortOf(inputs) == IF "effort" \in DOMAIN inputs THEN inputs.effort ELSE Omitted

\* The keyword arguments the server calls the tool function with.
ToolKwargs(request) == request.params.inputs

\* The server's answer to initialize, as test_basic_server_interaction reads it.
InitializeResponse(request) ==
    [jsonrpc |-> "2.0", id |-> request.id,
     result |-> [capabilities |-> [tools |-> TRUE],
                 serverInfo |-> [name |-> ServerName],
                 protocolVersion |-> request.params.protocolVersion]]

\* The server's answer to a tool request whose tool function ended as r: the
\* function's value as the result, and an error for an exception it let out.
ToolResponse(id, r) ==
    IF r.kind = "return"
    THEN [jsonrpc |-> "2.0", id |-> id, result |-> r.value]
    ELSE [jsonrpc |-> "2.0", id |-> id, error |-> [message |-> r.exc.text]]

\* The client has an answer to every request it sent.
ClientIdle == Len(stdout) = Len(requests)

\* main(): sys.stderr.write(...).
MainWritesNotice ==
    /\ server = "not_started"
    /\ stderr' = WriteNotice(stderr)
    /\ server' = "starting"
    /\ UNCHANGED <<toolVars, requests, handled, stdout, serving, dispatched>>

\* main(): mcp.run(transport="stdio") starts to serve, and does not return
\* while stdin is open.
MainRuns ==
    /\ server = "starting"
    /\ server' = "running"
    /\ UNCHANGED <<toolVars, stderr, requests, handled, stdout, serving, dispatched>>

\* The client writes a request and waits for its answer: initialize first,
\* then tool requests.
ClientSends ==
    /\ server # "stopped"
    /\ ClientIdle
    /\ Len(requests) < MaxRequests
    /\ LET id == Len(requests) + 1
       IN  IF requests = <<>>
           THEN requests' = Append(requests, InitializeRequest(id))
           ELSE \E inputs \in ToolInputs :
                    requests' = Append(requests, ToolRequest(id, inputs))
    /\ UNCHANGED <<toolVars, server, stderr, handled, stdout, serving, dispatched>>

\* The server reads an initialize request and answers it.
ServerInitializes ==
    /\ server = "running"
    /\ serving = None
    /\ handled < Len(requests)
    /\ requests[handled + 1].method = "initialize"
    /\ handled' = handled + 1
    /\ stdout' = Append(stdout, InitializeResponse(requests[handled + 1]))
    /\ UNCHANGED <<toolVars, server, stderr, requests, serving, dispatched>>

\* The server reads a tool request and calls the registered tool function,
\* main.deep_search, with the request's inputs as keyword arguments.
ServerCallsTool(c) ==
    /\ server = "running"
    /\ serving = None
    /\ handled < Len(requests)
    /\ requests[handled + 1].method = "tools/execute"
    /\ c = Len(dispatched) + 1
    /\ LET request == requests[handled + 1]
           kwargs == ToolKwargs(request)
       IN  /\ StdioBegin(c, kwargs.query, EffortOf(kwargs))
           /\ serving' = [id |-> request.id, call |-> c]
           /\ dispatched' = Append(dispatched,
                                   [id |-> request.id, call |-> c, kwargs |-> kwargs])
    /\ handled' = handled + 1
    /\ UNCHANGED <<server, stderr, requests, stdout>>

\* The tool function has ended: the server writes the answer.
ServerResponds ==
    /\ server = "running"
    /\ serving # None
    /\ pc[serving.call] = "done"
    /\ stdout' = Append(stdout, ToolResponse(serving.id, response[serving.call]))
    /\ serving' = None
    /\ UNCHANGED <<toolVars, server, stderr, requests, handled, dispatched>>

\* The client, with no request outstanding, terminates the process.
ClientStops ==
    /\ server # "stopped"
    /\ ClientIdle
    /\ server' = "stopped"
    /\ UNCHANGED <<toolVars, stderr, requests, handled, stdout, serving, dispatched>>

\* Calls of the tool function on both entry points, in any interleaving.
Next ==
    \E c \in Calls :
        \/ HttpCall(c)
        \/ StdioCall(c)
        \/ WorkerEnds(c, SomeOutcomes)
        \/ HttpResume(c)
        \/ StdioFinish(c, SomeOutcomes)

Spec == Init /\ [][Next]_vars

\* The same calls on a running event loop: a coroutine whose await has ended
\* is resumed.  The agent graph owes nothing: an invocation may never end.
NextLoop ==
    \E c \in Calls :
        \/ HttpCallDefaultEffort(c)
        \/ StdioCallDefaultEffort(c)
        \/ WorkerEnds(c, SomeOutcomes)
        \/ HttpResume(c)
        \/ StdioFinish(c, SomeOutcomes)

SpecLoop == Init /\ [][NextLoop]_vars /\ \A c \in Calls : WF_vars(HttpResume(c))

\* One call of the tool function, on either entry point, with every end of
\* the statements before graph.invoke and every end of graph.invoke.
NextOneCall ==
    \/ HttpCall(1)
    \/ StdioCall(1)
    \/ HttpAborts(1)
    \/ StdioAborts(1)
    \/ WorkerEnds(1, AgentOutcomes)
    \/ HttpResume(1)
    \/ StdioFinish(1, AgentOutcomes)

SpecOneCall == Init /\ [][NextOneCall]_vars

\* The agent graph ends call 2, made on the stdio entry point, as it ended
\* call 1, made on the HTTP entry point.
SameOutcome == IF outcome[1] = None THEN {} ELSE {outcome[1]}

\* One call on each entry point, with any arguments, for which graph.invoke
\* ends in the same way.
NextBoth ==
    \/ HttpCall(1)
    \/ WorkerEnds(1, AgentOutcomes)
    \/ HttpResume(1)
    \/ StdioCall(2)
    \/ StdioFinish(2, SameOutcome)

SpecBoth == Init /\ [][NextBoth]_vars

\* The stdio process and its client.  A process that can take a step of its
\* own takes it; the agent graph and the client owe nothing.
NextStdio ==
    \/ MainWritesNotice
    \/ MainRuns
    \/ ClientSends
    \/ ServerInitializes
    \/ \E c \in Calls : ServerCallsTool(c)
    \/ \E c \in Calls : StdioFinish(c, SomeOutcomes)
    \/ ServerResponds
    \/ ClientStops

SpecStdio ==
    /\ Init
    /\ [][NextStdio]_vars
    /\ WF_vars(MainWritesNotice)
    /\ WF_vars(MainRuns)
    /\ WF_vars(ServerInitializes)
    /\ WF_vars(\E c \in Calls : ServerCallsTool(c))
    /\ WF_vars(ServerResponds)

\* ------------------------------------------------------------- the claims

Done(c) == pc[c] = "done"
Http(c) == variant[c] = "http"
Stdio(c) == variant[c] = "stdio"

\* r is a returned ToolResponse: a dict with an answer and a sources field.
IsToolResponse(r) ==
    /\ r.kind = "return"
    /\ {"answer", "sources"} \subseteq DOMAIN r.value

\* C1: every deep_search call, on either entry point and however graph.invoke
\* ended, ends by returning a ToolResponse with an answer and a sources
\* field; no exception leaves deep_search.
C1_AlwaysToolResponse ==
    \A c \in Calls : Done(c) => IsToolResponse(response[c])

UnexpectedFailure(c) ==
    /\ Done(c) /\ Http(c)
    /\ \/ outcome[c].kind = "raise" /\ ~outcome[c].exc.google
       \/ outcome[c].kind = "return"
            /\ ~({"messages", "sources_gathered"} \subseteq DOMAIN outcome[c].value)

\* C3: on the HTTP entry point, when graph.invoke or the extraction from its
\* result raises an exception other than GoogleAPIError, deep_search returns
\* one fixed answer, the same text whatever the exception and its message,
\* and an empty sources sequence.
C3_UnexpectedErrorAnswer ==
    \A c \in Calls :
        UnexpectedFailure(c)
        => /\ IsToolResponse(response[c])
           /\ response[c].value.sources = <<>>
           /\ response[c].value.answer =
                <<"An unexpected error occurred during the search process. Please check logs for details.">>
           /\ \A d \in Calls : UnexpectedFailure(d) => response[d] = response[c]

C3_Witness ==
    \E c \in Calls :
        /\ UnexpectedFailure(c)
        /\ outcome[c].kind = "raise"
        /\ outcome[c].exc.cls = "RuntimeError"
        /\ outcome[c].exc.text # <<>>

\* Call c's graph.invoke returned a state with both expected keys.
ReturnedNormally(c) ==
    /\ Done(c)
    /\ outcome[c].kind = "return"
    /\ {"messages", "sources_gathered"} \subseteq DOMAIN outcome[c].value

\* C4: when graph.invoke returns, the answer is the content of the last
\* returned message, or "No answer generated." when there is no message, and
\* the sources are the returned sources_gathered, same elements, same order;
\* an empty message sequence is no error.
C4_SuccessPath ==
    \A c \in Calls :
        ReturnedNormally(c)
        => LET result == outcome[c].value
               n == Len(result.messages)
           IN  /\ IsToolResponse(response[c])
               /\ n > 0 => response[c].value.answer = result.messages[n].content
               /\ n = 0 => response[c].value.answer = <<"No answer generated.">>
               /\ response[c].value.sources = result.sources_gathered

C4_Witness ==
    \E c \in Calls :
        /\ ReturnedNormally(c)
        /\ outcome[c].value.sources_gathered = <<"s2", "s1">>
        /\ Len(outcome[c].value.messages) = 2
        /\ outcome[c].value.messages[1] # outcome[c].value.messages[2]

\* The three preset fields of an input state.
PresetFields(input_state) ==
    [initial_search_query_count |-> input_state.initial_search_query_count,
     max_research_loops |-> input_state.max_research_loops,
     reasoning_model |-> input_state.reasoning_model]

Invoked(c) == pc[c] # "idle"

\* C5: with effort left out, the input state handed to the agent carries the
\* "low" preset, and is the state a call with effort "low" hands over; for
\* every effort, the three preset fields are the resolved preset's.
C5_DefaultEffortLow ==
    \A c \in Calls :
        Invoked(c)
        => /\ effort[c] = Omitted
                => PresetFields(agent_args[c].input_state) = effort_table["low"]
           /\ effort[c] \in Efforts
                => PresetFields(agent_args[c].input_state) = effort_table[effort[c]]
           /\ \A d \in Calls :
                (/\ Invoked(d) /\ effort[c] = Omitted /\ effort[d] = "low"
                 /\ query[d] = query[c])
                => agent_args[d].input_state = agent_args[c].input_state

C5_Witness ==
    \E c, d \in Calls :
        /\ Invoked(c) /\ Invoked(d)
        /\ effort[c] = Omitted /\ Http(c)
        /\ effort[d] = "low" /\ Stdio(d)
        /\ query[c] = query[d]

\* The list-valued keys of the input state.
ListFields == {"messages", "search_query", "web_research_result", "sources_gathered"}
Accumulators == {"search_query", "web_research_result", "sources_gathered"}

\* C6 as stated: the input state has a message sequence of length exactly 1,
\* a user message whose content is the query, and four empty accumulator
\* sequences.
C6_FourEmptyAccumulators ==
    \A c \in Calls :
        Invoked(c)
        => LET st == agent_args[c].input_state
           IN  /\ Len(st.messages) = 1
               /\ st.messages[1] = [type |-> "human", content |-> query[c]]
               /\ Cardinality({k \in ListFields \cap DOMAIN st : st[k] = <<>>}) = 4

\* C6, amended: the input state has a message sequence of length exactly 1,
\* a user message whose content is the query, and its three accumulator
\* sequences (search_query, web_research_result, sources_gathered), the
\* only other sequences it holds, are empty.
C6_ThreeEmptyAccumulators ==
    \A c \in Calls :
        Invoked(c)
        => LET st == agent_args[c].input_state
           IN  /\ Len(st.messages) = 1
               /\ st.messages[1] = [type |-> "human", content |-> query[c]]
               /\ ListFields \cap DOMAIN st = Accumulators \cup {"messages"}
               /\ \A k \in Accumulators : st[k] = <<>>

C6_Witness ==
    \E c, d \in Calls :
        /\ Invoked(c) /\ Http(c) /\ effort[c] = "high"
        /\ Invoked(d) /\ Stdio(d) /\ effort[d] = "medium"
        /\ query[c] # query[d]

Range(f) == {f[i] : i \in DOMAIN f}

\* The answer written to request i is a result with the server's
\* capabilities and serverInfo, and no error.
InitializeAnswered(i) ==
    \E k \in 1..Len(stdout) :
        /\ stdout[k].id = i
        /\ "error" \notin DOMAIN stdout[k]
        /\ "result" \in DOMAIN stdout[k]
        /\ {"capabilities", "serverInfo"} \subseteq DOMAIN stdout[k].result

\* C7: the stdio entry point writes its startup notice to the error stream
\* before the server serves; the process then stays running until its client
\* ends it; an initialize request sent to it is in the end answered by a
\* response with the request's id, no error, and a result that holds
\* capabilities and serverInfo.
C7_StdioStartup ==
    /\ [](server = "running" \/ handled > 0 \/ stdout # <<>>
            => StartupNotice \in Range(stderr))
    /\ [][server = "running" /\ server' # "running" => ClientStops]_vars
    /\ \A i \in 1..MaxRequests :
         (Len(requests) >= i /\ requests[i].method = "initialize")
            ~> InitializeAnswered(i)

C7_Witness ==
    /\ server = "running"
    /\ stderr = <<"Starting MCP stdio server...\n">>
    /\ requests # <<>>
    /\ requests[1].method = "initialize"
    /\ InitializeAnswered(1)
    /\ Len(requests) = 2
    /\ ~ClientIdle

C9_EventLoopFree ==
    \A c \in Calls :
        (Http(c) /\ pc[c] = "invoking")
        => /\ loop["http"] = 0
           /\ CanRun("http")
           /\ \A d \in Calls : pc[d] = "idle" => ENABLED HttpCall(d)

\* A second request began its invocation while the first's was in progress,
\* and ended before the first's returned.
C9_Witness ==
    \E c, d \in Calls :
        /\ c # d
        /\ Http(c) /\ pc[c] = "invoking"
        /\ Http(d) /\ Done(d)
        /\ overlap[d]
        /\ \A e \in Calls \ {c, d} : pc[e] = "idle"

\* What the model holds of call c.
CallState(c) ==
    <<pc[c], variant[c], query[c], effort[c], agent_args[c], invocations[c],
      outcome[c], response[c], overlap[c]>>

\* C10: tool calls are independent.  Under every interleaving, the input
\* state and the config a call hands to the agent are built from its own
\* query and effort, and its response from its own outcome; a step of one
\* call changes nothing of another call; what a call handed to the agent and
\* what it returned never change afterwards; no call writes the process's
\* effort table or configuration.
C10_CallsIndependent ==
    /\ [](\A c \in Calls :
            Invoked(c)
            => /\ agent_args[c].input_state.messages
                    = <<[type |-> "human", content |-> query[c]]>>
               /\ PresetFields(agent_args[c].input_state)
                    = effort_table[IF effort[c] = Omitted THEN "low" ELSE effort[c]]
               /\ agent_args[c].config = [configurable |-> configuration])
    /\ [](\A c, d \in Calls :
            /\ (Invoked(c) /\ Invoked(d) /\ query[c] = query[d] /\ effort[c] = effort[d])
                    => agent_args[c] = agent_args[d]
            /\ (Done(c) /\ Done(d) /\ variant[c] = variant[d] /\ outcome[c] = outcome[d])
                    => response[c] = response[d])
    /\ [][\A c, d \in Calls :
            (c # d /\ CallState(c)' # CallState(c)) => CallState(d)' = CallState(d)]_vars
    /\ [][\A c \in Calls :
            /\ Invoked(c) => agent_args'[c] = agent_args[c]
            /\ Done(c) => response'[c] = response[c]]_vars
    /\ [][effort_table' = effort_table /\ configuration' = configuration]_vars

\* Two calls in progress at once on the HTTP entry point, with different
\* queries and efforts, one of which has failed.
C10_Witness ==
    \E c, d \in Calls :
        /\ c # d
        /\ Http(c) /\ Http(d)
        /\ overlap[d]
        /\ query[c] # query[d]
        /\ effort[c] # effort[d]
        /\ Done(c) /\ outcome[c].kind = "raise"
        /\ Done(d) /\ outcome[d].kind = "return"

\* Call c's graph.invoke raised.
InvocationFailed(c) == outcome[c] # None /\ outcome[c].kind = "raise"

\* C11: every call invokes the agent graph at most once, and exactly once
\* when the statements before the invocation succeeded: the invocation is
\* made when the call begins and at no later step, so never again after a
\* failure; the step that follows a failed invocation ends the call, and on
\* the stdio entry point what leaves the call is that first failure, and
\* on the HTTP entry point a response made of it has no sources.
C11_InvokedAtMostOnce ==
    /\ [](\A c \in Calls :
            /\ invocations[c] <= 1
            /\ pc[c] \in {"invoking", "returned"} => invocations[c] = 1
            /\ Done(c) => (invocations[c] = 1 <=> outcome[c] # NotInvoked)
            /\ (Done(c) /\ outcome[c] = NotInvoked)
                    => (response[c].kind = "raise" /\ agent_args[c] = None)
            /\ (Done(c) /\ InvocationFailed(c)) => response[c] # None
            /\ (Done(c) /\ InvocationFailed(c) /\ Stdio(c)) => response[c] = outcome[c]
            /\ (Done(c) /\ InvocationFailed(c) /\ Http(c) /\ response[c].kind = "return")
                    => response[c].value.sources = <<>>)
    /\ [][\A c \in Calls :
            /\ invocations'[c] # invocations[c]
                    => (pc[c] = "idle" /\ invocations'[c] = invocations[c] + 1)
            /\ (InvocationFailed(c) /\ pc'[c] # pc[c])
                    => (pc'[c] = "done" /\ outcome'[c] = outcome[c])]_vars

C11_Witness ==
    \E c \in Calls :
        /\ Done(c) /\ Http(c)
        /\ InvocationFailed(c)
        /\ outcome[c].exc.cls = "ValueError"
        /\ invocations[c] = 1
        /\ IsToolResponse(response[c])

\* Call c's graph.invoke has returned or raised.
InvocationEnded(c) == outcome[c] # None

\* C12: a call completes if and only if its agent invocation returns or
\* raises.  No response exists before the invocation has ended, and while
\* it has not, no step of the call can produce one (no timeout, no
\* cancellation); once it has ended, the call completes.  On the HTTP entry
\* point, while one call's invocation hangs, another call whose invocation
\* has ended can be resumed, and completes.
C12_CompletesIffInvocationEnds ==
    /\ [](\A c \in Calls :
            /\ response[c] # None => InvocationEnded(c)
            /\ pc[c] = "invoking"
                    => (response[c] = None /\ ~ENABLED HttpResume(c))
            /\ \A d \in Calls \ {c} :
                    (Http(c) /\ pc[c] = "invoking" /\ Http(d) /\ pc[d] = "returned")
                    => ENABLED HttpResume(d))
    /\ [][\A c \in Calls : response'[c] # response[c] => outcome'[c] # None]_vars
    /\ \A c \in Calls : InvocationEnded(c) ~> (Done(c) /\ response[c] # None)
    /\ \A c \in Calls : \A d \in Calls \ {c} :
            (Http(c) /\ pc[c] = "invoking" /\ Http(d) /\ pc[d] = "returned")
                ~> (Done(d) /\ response[d] # None)

\* The first call's invocation has not ended and the call has no response,
\* while a call that began after it has ended with a response.
C12_Witness ==
    \E c, d \in Calls :
        /\ c # d
        /\ Http(c) /\ pc[c] = "invoking" /\ response[c] = None
        /\ Http(d) /\ overlap[d] /\ Done(d)
        /\ IsToolResponse(response[d])
        /\ outcome[d].kind = "raise"

\* Call c ended after its graph.invoke raised, or returned a state from which
\* the extraction raises.
FailedInOrAfterInvoke(c) ==
    /\ Done(c)
    /\ \/ outcome[c].kind = "raise"
       \/ outcome[c].kind = "return"
            /\ ~({"messages", "sources_gathered"} \subseteq DOMAIN outcome[c].value)

\* On the stdio entry point such a failure leaves deep_search as it was
\* raised, and no response is returned.
StdioPropagates ==
    \A c \in Calls :
        (FailedInOrAfterInvoke(c) /\ Stdio(c))
        => /\ response[c].kind = "raise"
           /\ outcome[c].kind = "raise" => response[c] = outcome[c]
           /\ outcome[c].kind = "return" => response[c].exc.cls = "KeyError"

\* C13: on the stdio entry point an exception raised by graph.invoke or by
\* the extraction, a provider error or any other, leaves deep_search and no
\* response is returned, and on the HTTP entry point the same failure is
\* turned into a response with an answer and a sources field.
C13_StdioPropagatesHttpConverts ==
    /\ StdioPropagates
    /\ \A c \in Calls :
            (FailedInOrAfterInvoke(c) /\ Http(c)) => IsToolResponse(response[c])

\* C14: the two entry points implement the same tool logic.  A call on the
\* HTTP entry point and a call on the stdio entry point with the same query
\* and the same effort hand the same input state and the same config, made
\* of the three model identifiers, to the agent; and when graph.invoke
\* returns the same state to both, they return the same answer and sources.
C14_SameToolLogic ==
    \A c, d \in Calls :
        (/\ Http(c) /\ Stdio(d)
         /\ query[c] = query[d]
         /\ effort[c] = effort[d])
        => /\ agent_args[c].input_state = agent_args[d].input_state
           /\ agent_args[c].config = agent_args[d].config
           /\ agent_args[c].config.configurable = configuration
           /\ DOMAIN agent_args[d].config.configurable
                = {"query_generator_model", "reflection_model", "answer_model"}
           /\ (ReturnedNormally(c) /\ ReturnedNormally(d) /\ outcome[c] = outcome[d])
                => /\ response[c] = response[d]
                   /\ IsToolResponse(response[d])

C14_Witness ==
    \E c, d \in Calls :
        /\ Http(c) /\ Stdio(d)
        /\ query[c] = query[d]
        /\ effort[c] = "medium" /\ effort[d] = "medium"
        /\ ReturnedNormally(c) /\ ReturnedNormally(d)
        /\ outcome[c] = outcome[d]
        /\ Len(outcome[c].value.messages) = 2
        /\ outcome[c].value.messages[1] # outcome[c].value.messages[2]
        /\ outcome[c].value.sources_gathered = <<"s2", "s1">>

\* Call c ended, on the HTTP entry point, by a failure before graph.invoke
\* was called, or after graph.invoke raised a GoogleAPIError that has no
\* `message` attribute.
FailedOutsideTheHandlers(c) ==
    /\ Done(c) /\ Http(c)
    /\ \/ outcome[c] = NotInvoked
       \/ outcome[c].kind = "raise"
            /\ outcome[c].exc.google /\ ~outcome[c].exc.has_message

\* C15: on the HTTP entry point a failure raised before the agent is
\* invoked, and a failure raised while the answer for a provider error
\* without a `message` attribute is built, are turned into a response with
\* an answer and an empty sources sequence, and do not leave deep_search.
C15_HttpBoundaryCoversEveryFailure ==
    \A c \in Calls :
        FailedOutsideTheHandlers(c)
        => /\ IsToolResponse(response[c])
           /\ response[c].value.sources = <<>>

\* No such failure is turned into a response: each leaves deep_search.
HttpBoundaryLeaks ==
    \A c \in Calls : FailedOutsideTheHandlers(c) => response[c].kind = "raise"

====
